---------------------------- MODULE Spec2Model ----------------------------
(***************************************************************************)
(* The crawl scheduler of site_word_freq: WordFinder.run, the worker       *)
(* goroutines (SearchRecord.processLink), WordFinder.addLinkData and the   *)
(* transient helper goroutines that carry the sends a select could not     *)
(* place.  Channels are Go channels: a buffered channel is a bounded       *)
(* queue, an unbuffered one (capacity 0) hands a value over only to a      *)
(* receiver that is already parked in its receive.                         *)
(***************************************************************************)
EXTENDS Integers, Sequences, FiniteSets, Bags, TLC

(* ------------------------------ bounds -------------------------------- *)

\* Largest worker count (-concurrency) explored; every count in 1..Max is.
MaxConcurrency == 2

\* Largest channel capacity (-chan_buf_len, both channels) explored, from 0.
MaxBufLen == 1

\* Largest number of links one page scan reports.
MaxFanout == 2

(* ------------------------------ the site ------------------------------ *)

startURL == "s"

\* The link strings other than the start URL that pages of the site hold.
Links == {"a", "b"}

URLs == {startURL} \cup Links

\* The sites crawled: "any", whose pages may hold any links, and "test",
\* the two pages TestServer serves (the first page at the start URL, with
\* one link to "anotherpage", here "a", which holds no link).
Sites == {"any", "test"}

\* The words of TestServer's pages that scanText counts at the default
\* minimum length.
TestWords == {"parallelogram", "tarantulas", "ABCDEFGHIJ"}

\* The words a page may hold (long enough to be counted by scanText).
Words == {"w"} \cup TestWords

\* A slice of links travels as its length: a page scan can report any link
\* strings, in any order and with repeats, and nothing reads the entries of
\* a slice before the coordinating loop ranges over it, so each entry is
\* drawn from URLs there (ForwardLink).  A nil slice has length 0.
Batches == 0 .. MaxFanout

NoWords == [w \in Words |-> 0]

\* The counted words of TestServer's two pages.
FirstPage == [w \in Words |-> IF w \in {"parallelogram", "tarantulas"} THEN 1 ELSE 0]

AnotherPage ==
    [w \in Words |-> CASE w = "parallelogram" -> 2
                        [] w = "tarantulas" -> 1
                        [] w = "ABCDEFGHIJ" -> 1
                        [] OTHER -> 0]

FailingPages == {"b"}

NoRec == "-"

\* The states of a worker goroutine: parked in "for rec := range tasks",
\* holding a record it has not looked at, fetching, blocked in "filter <-
\* nil", and returned.
Idle == [pc |-> "idle", rec |-> NoRec]
Exited == [pc |-> "exit", rec |-> NoRec]
Holding(at, u) == [pc |-> at, rec |-> u]

VARIABLES
    concurrency,    \* *concurrency: the number of worker goroutines
    chanBufLen,     \* *chanBufLen: the capacity of both channels
    site,           \* which site the start URL belongs to (see Sites)
    pc,             \* where the coordinating loop (run/loopFunc) is
    cnt,            \* loopFunc's pending-work counter
    visited,        \* run's visited map (the keys set to true)
    l,              \* how many links of the batch being processed are not yet looked at
    tasks,          \* the buffer of the task channel ("search")
    tasksClosed,    \* close(tasks) has executed
    filter,         \* the buffer of wf.filter (batches, see Batches)
    filterClosed,   \* close(wf.filter) has executed
    taskHelpers,    \* bag of links held by goroutines blocked in tasks <- link
    filterHelpers,  \* bag of batches held by goroutines blocked in filter <- links
    workers,        \* bag of the worker goroutines' states: where each is, and its url
    interrupt,      \* wf.interrupt
    words,          \* wf.words
    errRecs,        \* wf.errRecs (the urls of the records, in append order)
    cancelled,      \* ctx.Done() is closed
    enq,            \* history: Tasks the coordinator has enqueued (seed included)
    recvCnt,        \* history: batches the coordinator has received from filter
    sentU,          \* history: per url, sends completed on the task channel
    recvU,          \* history: per url, Tasks received by workers
    pubU,           \* history: per url, batches published by sendData
    addCalls,       \* history: calls of addLinkData
    failedU,        \* history: per url, Tasks that ended with sr.err set
    shortCut,       \* history: a worker has taken the "if wf.interrupt" branch of processLink
    spawned,        \* history: the coordinator has started a helper goroutine
    observed,       \* history: the coordinator has taken the ctx.Done() branch
    budget,         \* history: Tasks in flight at the cancel signal, minus receives since
    obsLeft,        \* history: Tasks in flight when the coordinator observed, minus receives since
    panicked,       \* history: the channels on which a send came at or after the close (a Go panic)
    \* --- addLinkData's merge step by step, and getResults ---
    mu,             \* wf.mu: the callers that hold it
    callers,        \* per goroutine in addLinkData: where it is, its wds, the keys left, the count read
    order,          \* history: the callers in the order they took wf.mu
    totWords,       \* *totWords
    results,        \* the slices getResults has returned, in call order
    \* --- the unbounded relay queue (unlimitedStringChannel) ---
    senders,        \* per sending goroutine: how many of its items it has sent on snd
    lcnt,           \* how many items each sender sends
    sndClosed,      \* close(snd) has executed
    s,              \* the relay goroutine's s: "snd", or "nil" once it has seen the close
    data,           \* the relay's buffer
    relayExited,    \* the relay goroutine has left its loop
    rcvCloses,      \* how many times close(rcv) has executed
    got,            \* the items the receiver has received, in order
    rcvDone,        \* the receiver has seen rcv closed
    accepted,       \* history: the items in the order the relay took them from snd
    \* --- the site filter (newWordFinder's target, processHTML's test) ---
    seedHost,       \* startURL.Hostname()
    target,         \* wf.target
    hostLinks,      \* the hosts of the hrefs processHTML has appended to links
    scanned         \* history: the hosts of the hrefs processHTML has looked at

coordVars == <<pc, cnt, visited, l>>
chanVars == <<tasks, tasksClosed, filter, filterClosed>>
helperVars == <<taskHelpers, filterHelpers>>
aggVars == <<words, errRecs>>
configVars == <<concurrency, chanBufLen, site>>
histVars == <<enq, recvCnt, sentU, recvU, pubU, addCalls, failedU, shortCut, spawned, observed, budget, obsLeft, panicked>>

\* The crawl's variables other than the aggregate word table.
crawlVars == <<configVars, coordVars, chanVars, helperVars, workers, interrupt,
               errRecs, cancelled, histVars>>

mergeVars == <<mu, callers, order, totWords, results>>
relayVars == <<senders, lcnt, sndClosed, s, data, relayExited, rcvCloses, got,
               rcvDone, accepted>>

scanVars == <<seedHost, target, hostLinks, scanned>>

\* What a step of the crawl leaves alone.
sideVars == <<mergeVars, relayVars, scanVars>>

vars == <<crawlVars, words, sideVars>>

Inc(f, x) == [f EXCEPT ![x] = @ + 1]

\* The counted words of page u.  On the test site they are what TestServer
\* serves; on the other the start page holds one counted word and the other
\* pages none.  Only the pages in FailingPages can fail to load or to parse.
PageWords(u) ==
    IF site = "test"
    THEN (IF u = startURL THEN FirstPage ELSE AnotherPage)
    ELSE (IF u = startURL THEN [w \in Words |-> IF w = "w" THEN 1 ELSE 0] ELSE NoWords)

\* The strings an entry of a links slice can be: any, or on the test site
\* the one link of the first page.
LinkStrings == IF site = "test" THEN {"a"} ELSE URLs

\* The default of the tot_words flag.
DefaultTotWords == 10

\* The keys of a word table (a map holds a key once a count was added).
Keys(table) == {w \in Words : table[w] > 0}

\* The kvPairs getResults copies out of wf.words.
KvPairs(table) == {[key |-> w, value |-> table[w]] : w \in Keys(table)}

\* kvSorter.Less for two elements: kvs[j].value < kvs[i].value
Less(kvi, kvj) == kvj.value < kvi.value

\* The orders in which a range over a map can yield its entries.
Orderings(S) ==
    {q \in [1 .. Cardinality(S) -> S] : \A i, j \in DOMAIN q : i # j => q[i] # q[j]}

\* What sort.Sort can leave: no element is Less than one before it.  Which
\* of two elements that are not Less either way comes first depends on the
\* order the map was ranged over and on the sort, which is not stable.
Sorted(q) == \A i, j \in DOMAIN q : i < j => ~Less(q[j], q[i])

Min(a, b) == IF a < b THEN a ELSE b

\* The slices getResults can return for a table and *totWords = n.
GetResults(table, n) ==
    {SubSeq(q, 1, Min(n, Len(q))) : q \in {o \in Orderings(KvPairs(table)) : Sorted(o)}}

\* The pool with one worker gone from state "from" to state "to".
Move(from, to) == (workers (-) SetToBag({from})) (+) SetToBag({to})

\* Tasks enqueued whose batch the coordinator has not received yet.  The seed
\* counts from the start of the run, before its send has completed.
InFlight == IF pc = "seed" THEN 1 ELSE enq - recvCnt

\* A run about to start: the channels made and empty, the workers parked,
\* nothing visited, merged or logged.
CrawlStart ==
    /\ pc = "seed"
    /\ cnt = 0
    /\ visited = {}
    /\ l = 0
    /\ tasks = << >>
    /\ tasksClosed = FALSE
    /\ filter = << >>
    /\ filterClosed = FALSE
    /\ taskHelpers = EmptyBag
    /\ filterHelpers = EmptyBag
    /\ workers = (Idle :> concurrency)
    /\ interrupt = FALSE
    /\ words = NoWords
    /\ errRecs = << >>
    /\ cancelled = FALSE
    /\ enq = 0
    /\ recvCnt = 0
    /\ sentU = [u \in URLs |-> 0]
    /\ recvU = [u \in URLs |-> 0]
    /\ pubU = [u \in URLs |-> 0]
    /\ addCalls = 0
    /\ failedU = [u \in URLs |-> 0]
    /\ shortCut = FALSE
    /\ spawned = FALSE
    /\ observed = FALSE
    /\ budget = 0
    /\ obsLeft = 0
    /\ panicked = {}

\* No goroutine is in addLinkData, getResults has not been called, and
\* *totWords has its default.
MergeIdle ==
    /\ mu = {}
    /\ callers = << >>
    /\ order = << >>
    /\ totWords = DefaultTotWords
    /\ results = << >>

\* No relay queue has been made.
RelayIdle ==
    /\ senders = << >>
    /\ lcnt = 0
    /\ sndClosed = FALSE
    /\ s = "snd"
    /\ data = << >>
    /\ relayExited = FALSE
    /\ rcvCloses = 0
    /\ got = << >>
    /\ rcvDone = FALSE
    /\ accepted = << >>

\* No page is being scanned for links.
ScanIdle ==
    /\ seedHost = ""
    /\ target = ""
    /\ hostLinks = << >>
    /\ scanned = << >>

Init ==
    /\ concurrency \in 1 .. MaxConcurrency
    /\ chanBufLen \in 0 .. MaxBufLen
    /\ site \in Sites
    /\ CrawlStart
    /\ MergeIdle
    /\ RelayIdle
    /\ ScanIdle


(* ----------------------------- channels ------------------------------- *)

\* A send on the task channel can proceed: there is room in the buffer, or
\* (unbuffered) a worker is parked in "for rec := range tasks".  A send on a
\* closed channel proceeds too, into a panic.
TaskReady ==
    \/ tasksClosed
    \/ IF chanBufLen = 0 THEN BagIn(Idle, workers)
                         ELSE Len(tasks) < chanBufLen

\* The send "tasks <- u" completing.
TaskSend(u) ==
    IF tasksClosed
    THEN /\ panicked' = panicked \cup {"tasks"}
         /\ UNCHANGED <<tasks, workers, sentU, recvU>>
    ELSE /\ sentU' = Inc(sentU, u)
         /\ UNCHANGED panicked
         /\ IF chanBufLen = 0
            THEN /\ BagIn(Idle, workers)
                 /\ workers' = Move(Idle, Holding("start", u))
                 /\ recvU' = Inc(recvU, u)
                 /\ UNCHANGED tasks
            ELSE /\ tasks' = Append(tasks, u)
                 /\ UNCHANGED <<workers, recvU>>

\* The coordinator's "l := <-filter" completing with batch b.
CoordReceives(b) ==
    /\ l' = b
    /\ pc' = "check"
    /\ recvCnt' = recvCnt + 1
    /\ budget' = IF cancelled THEN budget - 1 ELSE budget
    /\ obsLeft' = IF observed THEN obsLeft - 1 ELSE obsLeft

\* A send on wf.filter can proceed.
FilterReady ==
    \/ filterClosed
    \/ IF chanBufLen = 0 THEN pc = "recv" ELSE Len(filter) < chanBufLen

\* The send "filter <- b" completing.
FilterSend(b) ==
    IF filterClosed
    THEN /\ panicked' = panicked \cup {"filter"}
         /\ UNCHANGED <<filter, l, pc, recvCnt, budget, obsLeft>>
    ELSE /\ UNCHANGED panicked
         /\ IF chanBufLen = 0
            THEN /\ CoordReceives(b)
                 /\ UNCHANGED filter
            ELSE /\ filter' = Append(filter, b)
                 /\ UNCHANGED <<l, pc, recvCnt, budget, obsLeft>>

(* --------------------- the coordinating loop (run) --------------------- *)

\* "case <-ctx.Done()" is ready.
CtxDone == cancelled

\* The loop's post statement cnt-- and its condition cnt > 0, with c the
\* counter's value at the end of the body.
EndIteration(c) ==
    /\ cnt' = c - 1
    /\ pc' = IF c - 1 > 0 THEN "recv" ELSE "closeTasks"

\* SeedSend with the loop's counter starting at 0: the seed is not counted.
SeedSendUncounted ==
    /\ pc = "seed"
    /\ TaskReady
    /\ TaskSend(startURL)
    /\ enq' = enq + 1
    /\ cnt' = 0
    /\ pc' = "closeTasks"
    /\ UNCHANGED <<configVars, visited, l, tasksClosed, filter, filterClosed,
                   helperVars, interrupt, aggVars, cancelled,
                   pubU, addCalls, failedU, shortCut, spawned, observed, recvCnt, budget, obsLeft>>
    /\ UNCHANGED sideVars

\* tasks <- wf.startURL.String(), then the loop's init cnt := 1 and the
\* first test of cnt > 0.
SeedSend ==
    /\ pc = "seed"
    /\ TaskReady
    /\ TaskSend(startURL)
    /\ enq' = enq + 1
    /\ cnt' = 1
    /\ pc' = "recv"
    /\ UNCHANGED <<configVars, visited, l, tasksClosed, filter, filterClosed,
                   helperVars, interrupt, aggVars, cancelled,
                   pubU, addCalls, failedU, shortCut, spawned, observed, recvCnt, budget, obsLeft>>
    /\ UNCHANGED sideVars

\* l := <-filter on a buffered channel (an unbuffered receive is part of
\* the sender's step).
Recv ==
    /\ pc = "recv"
    /\ chanBufLen > 0
    /\ filter # << >>
    /\ CoordReceives(Head(filter))
    /\ filter' = Tail(filter)
    /\ UNCHANGED <<configVars, cnt, visited, tasks, tasksClosed, filterClosed,
                   helperVars, workers, interrupt, aggVars, cancelled,
                   enq, sentU, recvU, pubU, addCalls, failedU, shortCut, spawned, observed, panicked>>
    /\ UNCHANGED sideVars

\* CheckCancel with "break" for "continue": on cancellation the loop is
\* left at once, with the counter as it is.
CheckCancelBreak ==
    /\ pc = "check"
    /\ IF CtxDone
       THEN /\ interrupt' = TRUE
            /\ observed' = TRUE
            /\ obsLeft' = IF observed THEN obsLeft ELSE enq - recvCnt
            /\ l' = 0
            /\ pc' = "closeTasks"
            /\ cnt' = cnt
       ELSE /\ IF l = 0 THEN EndIteration(cnt)
                        ELSE pc' = "links" /\ cnt' = cnt
            /\ UNCHANGED <<interrupt, observed, obsLeft, l>>
    /\ UNCHANGED <<configVars, visited, chanVars, helperVars, workers,
                   aggVars, cancelled, enq, recvCnt, sentU, recvU, pubU,
                   addCalls, failedU, shortCut, spawned, budget, panicked>>
    /\ UNCHANGED sideVars

\* CheckCancel without the "continue": on cancellation the flag is set and
\* the links of the batch are forwarded all the same.
CheckCancelNoContinue ==
    /\ pc = "check"
    /\ interrupt' = (interrupt \/ CtxDone)
    /\ observed' = (observed \/ CtxDone)
    /\ obsLeft' = IF CtxDone /\ ~observed THEN enq - recvCnt ELSE obsLeft
    /\ IF l = 0 THEN EndIteration(cnt)
                ELSE pc' = "links" /\ cnt' = cnt
    /\ UNCHANGED <<configVars, visited, l, chanVars, helperVars, workers,
                   aggVars, cancelled, enq, recvCnt, sentU, recvU, pubU,
                   addCalls, failedU, shortCut, spawned, budget, panicked>>
    /\ UNCHANGED sideVars

\* select { case <-ctx.Done(): wf.interrupt = true; continue; default: }
CheckCancel ==
    /\ pc = "check"
    /\ IF CtxDone
       THEN /\ interrupt' = TRUE
            /\ observed' = TRUE
            /\ obsLeft' = IF observed THEN obsLeft ELSE enq - recvCnt
            /\ l' = 0
            /\ EndIteration(cnt)
       ELSE /\ IF l = 0 THEN EndIteration(cnt)
                            ELSE pc' = "links" /\ cnt' = cnt
            /\ UNCHANGED <<interrupt, observed, obsLeft, l>>
    /\ UNCHANGED <<configVars, visited, chanVars, helperVars, workers,
                   aggVars, cancelled, enq, recvCnt, sentU, recvU, pubU,
                   addCalls, failedU, shortCut, spawned, budget, panicked>>
    /\ UNCHANGED sideVars

\* if visited[link] { continue }
Seen(link) == link \in visited

\* OfferTask as the plain send "tasks <- link" of the first revision: the
\* coordinator waits until the task channel can take the link.
OfferTaskBlocking(link) ==
    /\ TaskReady
    /\ TaskSend(link)
    /\ UNCHANGED <<taskHelpers, spawned>>

\* select { case tasks <- link: default: go func() { tasks <- link }() }
OfferTask(link) ==
    \/ /\ TaskReady
       /\ TaskSend(link)
       /\ UNCHANGED <<taskHelpers, spawned>>
    \/ /\ ~TaskReady
       /\ taskHelpers' = taskHelpers (+) SetToBag({link})
       /\ spawned' = TRUE
       /\ UNCHANGED <<tasks, workers, sentU, recvU, panicked>>

\* ForwardLink with cnt++ in the "case tasks <- link" branch only: a link
\* handed to a helper goroutine is not counted.
ForwardLinkMiscount ==
    /\ pc = "links"
    /\ l' = l - 1
    /\ \E link \in LinkStrings :
          IF Seen(link)
          THEN /\ IF l = 1 THEN EndIteration(cnt)
                           ELSE UNCHANGED <<pc, cnt>>
               /\ UNCHANGED <<visited, enq, tasks, workers, sentU, recvU,
                              taskHelpers, spawned, panicked>>
          ELSE /\ visited' = visited \cup {link}
               /\ enq' = enq + 1
               /\ OfferTask(link)
               /\ LET c == IF TaskReady THEN cnt + 1 ELSE cnt
                  IN  IF l = 1 THEN EndIteration(c)
                               ELSE cnt' = c /\ UNCHANGED pc
    /\ UNCHANGED <<configVars, tasksClosed, filter, filterClosed, filterHelpers,
                   interrupt, aggVars, cancelled, recvCnt, pubU, addCalls, failedU, shortCut,
                   observed, budget, obsLeft>>
    /\ UNCHANGED sideVars

\* ForwardLink without "visited[link] = true": a link is forwarded and
\* never marked.
ForwardLinkNoMark ==
    /\ pc = "links"
    /\ l' = l - 1
    /\ \E link \in LinkStrings :
          IF Seen(link)
          THEN /\ IF l = 1 THEN EndIteration(cnt)
                           ELSE UNCHANGED <<pc, cnt>>
               /\ UNCHANGED <<visited, enq, tasks, workers, sentU, recvU,
                              taskHelpers, spawned, panicked>>
          ELSE /\ UNCHANGED visited
               /\ enq' = enq + 1
               /\ OfferTask(link)
               /\ IF l = 1 THEN EndIteration(cnt + 1)
                           ELSE cnt' = cnt + 1 /\ UNCHANGED pc
    /\ UNCHANGED <<configVars, tasksClosed, filter, filterClosed, filterHelpers,
                   interrupt, aggVars, cancelled, recvCnt, pubU, addCalls, failedU, shortCut,
                   observed, budget, obsLeft>>
    /\ UNCHANGED sideVars

\* One pass of "for _, link := range l" for the next entry of the slice,
\* and the end of the iteration after the last one.
ForwardLink ==
    /\ pc = "links"
    /\ l' = l - 1
    /\ \E link \in LinkStrings :
          IF Seen(link)
          THEN /\ IF l = 1 THEN EndIteration(cnt)
                           ELSE UNCHANGED <<pc, cnt>>
               /\ UNCHANGED <<visited, enq, tasks, workers, sentU, recvU,
                              taskHelpers, spawned, panicked>>
          ELSE /\ visited' = visited \cup {link}
               /\ enq' = enq + 1
               /\ OfferTask(link)
               /\ IF l = 1 THEN EndIteration(cnt + 1)
                           ELSE cnt' = cnt + 1 /\ UNCHANGED pc
    /\ UNCHANGED <<configVars, tasksClosed, filter, filterClosed, filterHelpers,
                   interrupt, aggVars, cancelled, recvCnt, pubU, addCalls, failedU, shortCut,
                   observed, budget, obsLeft>>
    /\ UNCHANGED sideVars

\* CloseTasks without the close: loopFunc returns and leaves tasks open.
CloseTasksSkipped ==
    /\ pc = "closeTasks"
    /\ pc' = "closeFilter"
    /\ UNCHANGED <<configVars, cnt, visited, l, chanVars,
                   helperVars, workers, interrupt, aggVars, cancelled, histVars>>
    /\ UNCHANGED sideVars

\* close(tasks), at the end of loopFunc.
CloseTasks ==
    /\ pc = "closeTasks"
    /\ tasksClosed' = TRUE
    /\ pc' = "closeFilter"
    /\ UNCHANGED <<configVars, cnt, visited, l, tasks, filter, filterClosed,
                   helperVars, workers, interrupt, aggVars, cancelled, histVars>>
    /\ UNCHANGED sideVars

\* close(wf.filter)
CloseFilter ==
    /\ pc = "closeFilter"
    /\ filterClosed' = TRUE
    /\ pc' = "wait"
    /\ UNCHANGED <<configVars, cnt, visited, l, tasks, tasksClosed, filter,
                   helperVars, workers, interrupt, aggVars, cancelled, histVars>>
    /\ UNCHANGED sideVars

\* Every worker goroutine has returned (and run its deferred wg.Done()).
AllExited == \A st \in BagToSet(workers) : st.pc = "exit"

\* WaitWorkers without the wait: run returns whatever the workers are doing.
WaitWorkersNoWait ==
    /\ pc = "wait"
    /\ pc' = "done"
    /\ UNCHANGED <<configVars, cnt, visited, l, chanVars, helperVars, workers,
                   interrupt, aggVars, cancelled, histVars>>
    /\ UNCHANGED sideVars

\* wg.Wait() returning.
WaitWorkers ==
    /\ pc = "wait"
    /\ AllExited
    /\ pc' = "done"
    /\ UNCHANGED <<configVars, cnt, visited, l, chanVars, helperVars, workers,
                   interrupt, aggVars, cancelled, histVars>>
    /\ UNCHANGED sideVars

(* ------------- the workers (processLink, addLinkData) ----------------- *)

\* The ways SearchRecord.processLink ends once it fetches url u, with what
\* it then passes to addLinkData: sr.err set or not, the word table, the
\* links, and whether the links slice is nil.  These five return early with
\* addLinkData(ctx, sr, nil, nil).
NilOutcomes ==
    {[kind |-> k[1], err |-> k[2], wds |-> NoWords, links |-> 0, nilLinks |-> TRUE] :
        k \in {<<"getError", TRUE>>, <<"httpStatus", TRUE>>,
               <<"noContentType", FALSE>>, <<"badContentType", TRUE>>,
               <<"binary", FALSE>>}}

\* processHTML: the tokenizer ends at EOF or at a parse error, and the words
\* and links found are passed on either way.
HTMLOutcomes(u) ==
    {[kind |-> k[1], err |-> k[2], wds |-> PageWords(u), links |-> b, nilLinks |-> FALSE] :
        k \in {<<"html", FALSE>>, <<"htmlParseError", TRUE>>}, b \in Batches}

\* processAsText: the reader ends at EOF or at a read error; no links.
TextOutcomes(u) ==
    {[kind |-> k[1], err |-> k[2], wds |-> PageWords(u), links |-> 0, nilLinks |-> TRUE] :
        k \in {<<"text", FALSE>>, <<"textReadError", TRUE>>}}

\* The start page is an HTML page that loads and parses; any other page can
\* end processLink in any way, the failing ones in a failing one too.
\* The pages of the test site are HTML pages too, the first with its one
\* link and the other with none.
Outcomes(u) ==
    IF site = "test"
    THEN {o \in HTMLOutcomes(u) :
             ~o.err /\ o.links = (IF u = startURL THEN 1 ELSE 0)}
    ELSE IF u = startURL
    THEN {o \in HTMLOutcomes(u) : ~o.err}
    ELSE {o \in NilOutcomes \cup HTMLOutcomes(u) \cup TextOutcomes(u) :
             o.err => u \in FailingPages}

\* AddCount with "=" for "+=": the page's count replaces the table's.
AddCountOverwrite(old, v) == IF v > 0 THEN v ELSE old

\* wf.words[k] += v
AddCount(old, v) == old + v

\* for k, v := range wds { wf.words[k] += v }
AddTable(table, wds) == [x \in Words |-> AddCount(table[x], wds[x])]

\* addLinkData's guard: (wds != nil && len(wds) > 0) || links != nil
TakesLock(wds, nilLinks) == (\E x \in Words : wds[x] > 0) \/ ~nilLinks

\* Merge with the cancellation looked at first: once ctx is done the page's
\* result is dropped instead of merged.
MergeUnlessDone(u, err, wds, nilLinks) ==
    /\ addCalls' = addCalls + 1
    /\ failedU' = IF err THEN Inc(failedU, u) ELSE failedU
    /\ IF TakesLock(wds, nilLinks) /\ ~CtxDone
       THEN /\ errRecs' = IF err THEN Append(errRecs, u) ELSE errRecs
            /\ words' = AddTable(words, wds)
       ELSE UNCHANGED <<errRecs, words>>

\* Merge as in the first revision, "wf.records = append(wf.records, sr)":
\* every record that gets to the locked section is appended, failed or not.
MergeLogAll(u, err, wds, nilLinks) ==
    /\ addCalls' = addCalls + 1
    /\ failedU' = IF err THEN Inc(failedU, u) ELSE failedU
    /\ IF TakesLock(wds, nilLinks)
       THEN /\ errRecs' = Append(errRecs, u)
            /\ words' = AddTable(words, wds)
       ELSE UNCHANGED <<errRecs, words>>

\* The first half of addLinkData: under wf.mu, append the record if it has
\* an error and add the page's counts into wf.words.
Merge(u, err, wds, nilLinks) ==
    /\ addCalls' = addCalls + 1
    /\ failedU' = IF err THEN Inc(failedU, u) ELSE failedU
    /\ IF TakesLock(wds, nilLinks)
       THEN /\ errRecs' = IF err THEN Append(errRecs, u) ELSE errRecs
            /\ words' = AddTable(words, wds)
       ELSE UNCHANGED <<errRecs, words>>

\* SendData with an empty default case: when filter has no room the batch
\* is dropped instead of being handed to a goroutine.
SendDataDrop(from, u, b) ==
    \/ /\ CtxDone
       /\ interrupt' = TRUE
       /\ workers' = Move(from, Holding("nilsend", u))
       /\ UNCHANGED <<pc, l, filter, filterHelpers, recvCnt, pubU, budget,
                      obsLeft, panicked>>
    \/ /\ FilterReady
       /\ FilterSend(b)
       /\ workers' = Move(from, Idle)
       /\ pubU' = Inc(pubU, u)
       /\ UNCHANGED <<filterHelpers, interrupt>>
    \/ /\ ~CtxDone
       /\ ~FilterReady
       /\ workers' = Move(from, Idle)
       /\ UNCHANGED <<pc, l, filter, filterHelpers, interrupt, recvCnt, pubU,
                      budget, obsLeft, panicked>>

\* SendData whose ctx.Done() case does not stand in for the send of the
\* links: after it the links are handed to a goroutine as well, so the
\* Task is answered twice.
SendDataTwice(from, u, b) ==
    \/ /\ CtxDone
       /\ interrupt' = TRUE
       /\ workers' = Move(from, Holding("nilsend", u))
       /\ filterHelpers' = filterHelpers (+) SetToBag({b})
       /\ pubU' = Inc(pubU, u)
       /\ UNCHANGED <<pc, l, filter, recvCnt, budget, obsLeft, panicked>>
    \/ /\ FilterReady
       /\ FilterSend(b)
       /\ workers' = Move(from, Idle)
       /\ pubU' = Inc(pubU, u)
       /\ UNCHANGED <<filterHelpers, interrupt>>
    \/ /\ ~CtxDone
       /\ ~FilterReady
       /\ filterHelpers' = filterHelpers (+) SetToBag({b})
       /\ workers' = Move(from, Idle)
       /\ pubU' = Inc(pubU, u)
       /\ UNCHANGED <<pc, l, filter, interrupt, recvCnt, budget, obsLeft, panicked>>

\* SendData with "wf.interrupt = true" in the "case filter <- links" too: the
\* flag is set whether or not ctx is done.
SendDataFlagged(from, u, b) ==
    \/ /\ CtxDone
       /\ interrupt' = TRUE
       /\ workers' = Move(from, Holding("nilsend", u))
       /\ UNCHANGED <<pc, l, filter, filterHelpers, recvCnt, pubU, budget,
                      obsLeft, panicked>>
    \/ /\ FilterReady
       /\ FilterSend(b)
       /\ workers' = Move(from, Idle)
       /\ pubU' = Inc(pubU, u)
       /\ interrupt' = TRUE
       /\ UNCHANGED filterHelpers
    \/ /\ ~CtxDone
       /\ ~FilterReady
       /\ filterHelpers' = filterHelpers (+) SetToBag({b})
       /\ workers' = Move(from, Idle)
       /\ pubU' = Inc(pubU, u)
       /\ UNCHANGED <<pc, l, filter, interrupt, recvCnt, budget, obsLeft, panicked>>

\* The second half of addLinkData, sendData's select, run by the worker in
\* state "from" for its url u and the links b:
\*   case <-ctx.Done(): wf.interrupt = true; filter <- nil
\*   case filter <- links:
\*   default: go func() { filter <- links }()
\* Go picks among the ready cases, and default only when none is.
SendData(from, u, b) ==
    \/ /\ CtxDone
       /\ interrupt' = TRUE
       /\ workers' = Move(from, Holding("nilsend", u))
       /\ UNCHANGED <<pc, l, filter, filterHelpers, recvCnt, pubU, budget,
                      obsLeft, panicked>>
    \/ /\ FilterReady
       /\ FilterSend(b)
       /\ workers' = Move(from, Idle)
       /\ pubU' = Inc(pubU, u)
       /\ UNCHANGED <<filterHelpers, interrupt>>
    \/ /\ ~CtxDone
       /\ ~FilterReady
       /\ filterHelpers' = filterHelpers (+) SetToBag({b})
       /\ workers' = Move(from, Idle)
       /\ pubU' = Inc(pubU, u)
       /\ UNCHANGED <<pc, l, filter, interrupt, recvCnt, budget, obsLeft, panicked>>

\* What a read of wf.interrupt can return.  The flag is written and read by
\* different goroutines with no synchronisation, so a read that races with
\* the write may still return the old value.
InterruptReads == IF interrupt THEN {TRUE, FALSE} ELSE {FALSE}

\* WorkerRecv with a goroutine started per Task: the receiver stays parked
\* and a new goroutine processes the record.
WorkerRecvSpawn ==
    /\ BagIn(Idle, workers)
    /\ tasks # << >>
    /\ workers' = workers (+) SetToBag({Holding("start", Head(tasks))})
    /\ tasks' = Tail(tasks)
    /\ recvU' = Inc(recvU, Head(tasks))
    /\ UNCHANGED <<configVars, coordVars, tasksClosed, filter, filterClosed,
                   helperVars, interrupt, aggVars, cancelled, enq, recvCnt,
                   sentU, pubU, addCalls, failedU, shortCut, spawned, observed, budget, obsLeft, panicked>>
    /\ UNCHANGED sideVars

\* for rec := range tasks, receiving from the buffer.
WorkerRecv ==
    /\ BagIn(Idle, workers)
    /\ tasks # << >>
    /\ workers' = Move(Idle, Holding("start", Head(tasks)))
    /\ tasks' = Tail(tasks)
    /\ recvU' = Inc(recvU, Head(tasks))
    /\ UNCHANGED <<configVars, coordVars, tasksClosed, filter, filterClosed,
                   helperVars, interrupt, aggVars, cancelled, enq, recvCnt,
                   sentU, pubU, addCalls, failedU, shortCut, spawned, observed, budget, obsLeft, panicked>>
    /\ UNCHANGED sideVars

\* for rec := range tasks ending: the channel is closed and drained.
WorkerExit ==
    /\ BagIn(Idle, workers)
    /\ tasksClosed
    /\ tasks = << >>
    /\ workers' = Move(Idle, Exited)
    /\ UNCHANGED <<configVars, coordVars, chanVars, helperVars,
                   interrupt, aggVars, cancelled, histVars>>
    /\ UNCHANGED sideVars

\* WorkerStart returning at once when wf.interrupt is set, without the
\* call of addLinkData.
WorkerStartNoReply(u) ==
    /\ BagIn(Holding("start", u), workers)
    /\ \E seen \in InterruptReads :
          workers' = Move(Holding("start", u),
                          IF seen THEN Idle ELSE Holding("fetch", u))
    /\ UNCHANGED <<configVars, coordVars, chanVars, helperVars, interrupt,
                   aggVars, cancelled, histVars>>
    /\ UNCHANGED sideVars

\* The start of processLink for url u: if wf.interrupt, the whole of
\* addLinkData(ctx, sr, nil, nil); otherwise on to the fetch.
WorkerStart(u) ==
    /\ BagIn(Holding("start", u), workers)
    /\ \E seen \in InterruptReads :
          IF seen
          THEN /\ Merge(u, FALSE, NoWords, TRUE)
               /\ SendData(Holding("start", u), u, 0)
               /\ shortCut' = TRUE
          ELSE /\ workers' = Move(Holding("start", u), Holding("fetch", u))
               /\ UNCHANGED <<addCalls, failedU, shortCut, errRecs, words, pc, l, filter, filterHelpers,
                              interrupt, recvCnt, pubU, budget, obsLeft, panicked>>
    /\ UNCHANGED <<configVars, cnt, visited, tasks, tasksClosed, filterClosed,
                   taskHelpers, cancelled, enq, sentU, recvU, spawned, observed>>
    /\ UNCHANGED sideVars

\* The fetch and scan of url u returning, and the whole of addLinkData:
\* the merge under wf.mu, then sendData.
WorkerFetch(u) ==
    /\ BagIn(Holding("fetch", u), workers)
    /\ \E o \in Outcomes(u) :
          /\ Merge(u, o.err, o.wds, o.nilLinks)
          /\ SendData(Holding("fetch", u), u, o.links)
    /\ UNCHANGED <<configVars, cnt, visited, tasks, tasksClosed, filterClosed,
                   taskHelpers, cancelled, enq, sentU, recvU, shortCut, spawned, observed>>
    /\ UNCHANGED sideVars

\* filter <- nil, the blocking send of the ctx.Done() case, completing.
WorkerNilSend(u) ==
    /\ BagIn(Holding("nilsend", u), workers)
    /\ FilterReady
    /\ FilterSend(0)
    /\ workers' = Move(Holding("nilsend", u), Idle)
    /\ pubU' = Inc(pubU, u)
    /\ UNCHANGED <<configVars, cnt, visited, tasks, tasksClosed, filterClosed,
                   helperVars, interrupt, aggVars, cancelled, enq, sentU, recvU,
                   addCalls, failedU, shortCut, spawned, observed>>
    /\ UNCHANGED sideVars

(* ----------------------- the helper goroutines ------------------------ *)

\* TaskHelperSend by a goroutine that does not return after its send: the
\* link stays with it, to be sent again.
TaskHelperResend ==
    /\ \E u \in BagToSet(taskHelpers) :
          /\ TaskReady
          /\ TaskSend(u)
          /\ UNCHANGED taskHelpers
    /\ UNCHANGED <<configVars, coordVars, tasksClosed, filter, filterClosed,
                   filterHelpers, interrupt, aggVars, cancelled, enq, recvCnt,
                   pubU, addCalls, failedU, shortCut, spawned, observed, budget, obsLeft>>
    /\ UNCHANGED sideVars

\* go func() { tasks <- link }() completing its send.
TaskHelperSend ==
    /\ \E u \in BagToSet(taskHelpers) :
          /\ TaskReady
          /\ TaskSend(u)
          /\ taskHelpers' = taskHelpers (-) SetToBag({u})
    /\ UNCHANGED <<configVars, coordVars, tasksClosed, filter, filterClosed,
                   filterHelpers, interrupt, aggVars, cancelled, enq, recvCnt,
                   pubU, addCalls, failedU, shortCut, spawned, observed, budget, obsLeft>>
    /\ UNCHANGED sideVars

\* go func() { filter <- links }() completing its send.
FilterHelperSend ==
    /\ \E b \in BagToSet(filterHelpers) :
          /\ FilterReady
          /\ FilterSend(b)
          /\ filterHelpers' = filterHelpers (-) SetToBag({b})
    /\ UNCHANGED <<configVars, cnt, visited, tasks, tasksClosed, filterClosed,
                   taskHelpers, workers, interrupt, aggVars, cancelled, enq,
                   sentU, recvU, pubU, addCalls, failedU, shortCut, spawned, observed>>
    /\ UNCHANGED sideVars

(* --------------------------- the environment -------------------------- *)

\* cancel(): the signal handler of main closes ctx.Done().
Cancel ==
    /\ ~cancelled
    /\ pc # "done"
    /\ cancelled' = TRUE
    /\ budget' = InFlight
    /\ UNCHANGED <<configVars, coordVars, chanVars, helperVars, workers,
                   interrupt, aggVars, enq, recvCnt, sentU, recvU, pubU, addCalls, failedU, shortCut,
                   spawned, observed, obsLeft, panicked>>
    /\ UNCHANGED sideVars

\* showStatus(finder), once run has returned: getErrors and getResults read
\* the error log and the word table.
ShowStatus ==
    /\ pc = "done"
    /\ results = << >>
    /\ \E r \in GetResults(words, totWords) : results' = Append(results, r)
    /\ UNCHANGED <<crawlVars, words, mu, callers, order, totWords, relayVars, scanVars>>

(* --------------------------- specifications --------------------------- *)

Coordinator ==
    \/ SeedSend
    \/ Recv
    \/ CheckCancel
    \/ ForwardLink
    \/ CloseTasks
    \/ CloseFilter
    \/ WaitWorkers

WorkerPool ==
    \/ WorkerRecv
    \/ WorkerExit
    \/ \E u \in URLs : WorkerStart(u)
    \/ \E u \in URLs : WorkerFetch(u)
    \/ \E u \in URLs : WorkerNilSend(u)

Helpers ==
    \/ TaskHelperSend
    \/ FilterHelperSend

\* Every step of the program.
ProgNext ==
    \/ Coordinator
    \/ WorkerPool
    \/ Helpers

Next ==
    \/ ProgNext
    \/ Cancel
    \/ ShowStatus

Spec == Init /\ [][Next]_vars

\* The Go scheduler does not leave the program idle while a goroutine of
\* it can take a step.  Nothing is asked about which goroutine runs, and
\* nothing of the cancel signal, which may never come.
Fairness == WF_vars(ProgNext)

FairSpec == Spec /\ Fairness

(* ------------- addLinkData's merge, step by step; getResults ---------- *)

\* Largest *totWords explored, from 0.
MaxTop == 3

\* The word tables the callers pass to addLinkData.
PageTables == {NoWords, FirstPage, AnotherPage}

\* A goroutine that is about to call addLinkData.
NoCall == [pc |-> "call", wds |-> NoWords, todo |-> {}, key |-> NoRec, tmp |-> 0]

\* Caller c exists and is at the given place of addLinkData.
At(c, where) == c \in DOMAIN callers /\ callers[c].pc = where

\* addLinkData called with a word table and a links slice, nil or not: on
\* to wf.mu.Lock() if the guard holds, else past the merge.
Call(c) ==
    /\ At(c, "call")
    /\ \E wds \in PageTables, nilLinks \in BOOLEAN :
          callers' = [callers EXCEPT ![c] =
                         [@ EXCEPT !.wds = wds,
                                   !.pc = IF TakesLock(wds, nilLinks)
                                          THEN "lock" ELSE "done"]]
    /\ UNCHANGED <<crawlVars, words, mu, order, totWords, results, relayVars, scanVars>>

\* Lock without the mutex: the caller goes on whoever holds wf.mu.
LockNoWait(c) ==
    /\ At(c, "lock")
    /\ mu' = mu \cup {c}
    /\ order' = Append(order, c)
    /\ callers' = [callers EXCEPT ![c] =
                      [@ EXCEPT !.pc = "range", !.todo = Keys(callers[c].wds)]]
    /\ UNCHANGED <<crawlVars, words, totWords, results, relayVars, scanVars>>

\* wf.mu.Lock() returning.
Lock(c) ==
    /\ At(c, "lock")
    /\ mu = {}
    /\ mu' = mu \cup {c}
    /\ order' = Append(order, c)
    /\ callers' = [callers EXCEPT ![c] =
                      [@ EXCEPT !.pc = "range", !.todo = Keys(callers[c].wds)]]
    /\ UNCHANGED <<crawlVars, words, totWords, results, relayVars, scanVars>>

\* for k, v := range wds: the next key, in whatever order the map gives it,
\* and the read of wf.words[k].
ReadCount(c) ==
    /\ At(c, "range")
    /\ \E k \in callers[c].todo :
          callers' = [callers EXCEPT ![c] =
                         [@ EXCEPT !.pc = "write", !.key = k, !.tmp = words[k]]]
    /\ UNCHANGED <<crawlVars, words, mu, order, totWords, results, relayVars, scanVars>>

\* The write of wf.words[k] += v.
WriteCount(c) ==
    /\ At(c, "write")
    /\ LET k == callers[c].key
       IN  /\ words' = [words EXCEPT ![k] = AddCount(callers[c].tmp, callers[c].wds[k])]
           /\ callers' = [callers EXCEPT ![c] =
                             [@ EXCEPT !.pc = "range", !.todo = @ \ {k}]]
    /\ UNCHANGED <<crawlVars, mu, order, totWords, results, relayVars, scanVars>>

\* The range is over: wf.mu.Unlock().
Unlock(c) ==
    /\ At(c, "range")
    /\ callers[c].todo = {}
    /\ mu' = mu \ {c}
    /\ callers' = [callers EXCEPT ![c] = [@ EXCEPT !.pc = "done"]]
    /\ UNCHANGED <<crawlVars, words, order, totWords, results, relayVars, scanVars>>

\* A call of getResults, once every merge is over.
GetResultsCall ==
    /\ \A c \in DOMAIN callers : At(c, "done")
    /\ Len(results) < 2
    /\ \E r \in GetResults(words, totWords) : results' = Append(results, r)
    /\ UNCHANGED <<crawlVars, words, mu, callers, order, totWords, relayVars, scanVars>>

\* *concurrency goroutines, each about to call addLinkData once.
MergeInit ==
    /\ concurrency \in 1 .. MaxConcurrency
    /\ chanBufLen = 0
    /\ site = "any"
    /\ CrawlStart
    /\ mu = {}
    /\ callers = [c \in 1 .. concurrency |-> NoCall]
    /\ order = << >>
    /\ totWords \in 0 .. MaxTop
    /\ results = << >>
    /\ RelayIdle
    /\ ScanIdle

MergeNext ==
    \/ \E c \in 1 .. MaxConcurrency : Call(c)
    \/ \E c \in 1 .. MaxConcurrency : Lock(c)
    \/ \E c \in 1 .. MaxConcurrency : ReadCount(c)
    \/ \E c \in 1 .. MaxConcurrency : WriteCount(c)
    \/ \E c \in 1 .. MaxConcurrency : Unlock(c)
    \/ GetResultsCall

MergeSpec == MergeInit /\ [][MergeNext]_vars

(* -------------- the unbounded relay queue (unlimitedStringChannel) ----- *)

\* Largest number of sending goroutines explored, from 1.
MaxSenders == 2

\* Largest number of items each of them sends, from 0.
MaxSends == 2

\* The n-th item of sender i.
Item(i, n) == <<i, n>>

\* Sender i has an item left and is in "snd <- item".
Sending(i) == i \in DOMAIN senders /\ senders[i] < lcnt

\* if s == nil && len(data) == 0 { close(rcv); break }, with the buffer as
\* the select has left it.
CloseCheck(nowS, nowData) ==
    IF nowS = "nil" /\ nowData = << >>
    THEN rcvCloses' = rcvCloses + 1 /\ relayExited' = TRUE
    ELSE UNCHANGED <<rcvCloses, relayExited>>

\* RelayAccept with the buffer as a one-slot buffer: an item is taken from
\* snd only while nothing is buffered.
RelayAcceptBounded(i) ==
    /\ ~relayExited
    /\ s = "snd"
    /\ data = << >>
    /\ Sending(i)
    /\ data' = Append(data, Item(i, senders[i]))
    /\ accepted' = Append(accepted, Item(i, senders[i]))
    /\ senders' = [senders EXCEPT ![i] = @ + 1]
    /\ CloseCheck(s, data')
    /\ UNCHANGED <<crawlVars, words, mergeVars, scanVars, lcnt, sndClosed, s, got, rcvDone>>

\* case d, ok := <-s with ok: sender i's send completes and its item is
\* appended to the buffer.
RelayAccept(i) ==
    /\ ~relayExited
    /\ s = "snd"
    /\ Sending(i)
    /\ data' = Append(data, Item(i, senders[i]))
    /\ accepted' = Append(accepted, Item(i, senders[i]))
    /\ senders' = [senders EXCEPT ![i] = @ + 1]
    /\ CloseCheck(s, data')
    /\ UNCHANGED <<crawlVars, words, mergeVars, scanVars, lcnt, sndClosed, s, got, rcvDone>>

\* RelaySeesClose with the check "if s == nil" alone: rcv is closed as soon
\* as snd is seen closed, whatever is still buffered.
RelaySeesCloseEager ==
    /\ ~relayExited
    /\ s = "snd"
    /\ sndClosed
    /\ s' = "nil"
    /\ CloseCheck(s', << >>)
    /\ UNCHANGED <<crawlVars, words, mergeVars, scanVars, senders, lcnt, sndClosed, data,
                   got, rcvDone, accepted>>

\* case d, ok := <-s with !ok: snd was closed, s = nil.
RelaySeesClose ==
    /\ ~relayExited
    /\ s = "snd"
    /\ sndClosed
    /\ s' = "nil"
    /\ CloseCheck(s', data)
    /\ UNCHANGED <<crawlVars, words, mergeVars, scanVars, senders, lcnt, sndClosed, data,
                   got, rcvDone, accepted>>

\* RelayDeliver handing over the newest item of the buffer instead of the
\* oldest.
RelayDeliverNewest ==
    /\ ~relayExited
    /\ data # << >>
    /\ ~rcvDone
    /\ got' = Append(got, data[Len(data)])
    /\ data' = SubSeq(data, 1, Len(data) - 1)
    /\ CloseCheck(s, data')
    /\ UNCHANGED <<crawlVars, words, mergeVars, scanVars, senders, lcnt, sndClosed, s,
                   rcvDone, accepted>>

\* The string nxt holds while the buffer is empty: nxt = "".
NoItem == <<0, 0>>

\* RelayDeliver with "r = rcv" whatever the buffer holds: with nothing
\* buffered the receiver is handed nxt, the empty string.
RelayDeliverAlways ==
    /\ ~relayExited
    /\ ~rcvDone
    /\ got' = Append(got, IF data = << >> THEN NoItem ELSE Head(data))
    /\ data' = IF data = << >> THEN data ELSE Tail(data)
    /\ CloseCheck(s, data')
    /\ UNCHANGED <<crawlVars, words, mergeVars, scanVars, senders, lcnt, sndClosed, s,
                   rcvDone, accepted>>

\* case r <- nxt: the receiver takes data[0]; data = data[1:].
RelayDeliver ==
    /\ ~relayExited
    /\ data # << >>
    /\ ~rcvDone
    /\ got' = Append(got, Head(data))
    /\ data' = Tail(data)
    /\ CloseCheck(s, data')
    /\ UNCHANGED <<crawlVars, words, mergeVars, scanVars, senders, lcnt, sndClosed, s,
                   rcvDone, accepted>>

\* The receiver's "for m := range rdr" ending on the closed channel.
ReceiverSeesClose ==
    /\ rcvCloses > 0
    /\ ~rcvDone
    /\ rcvDone' = TRUE
    /\ UNCHANGED <<crawlVars, words, mergeVars, scanVars, senders, lcnt, sndClosed, s, data,
                   relayExited, rcvCloses, got, accepted>>

\* wg.Wait(); close(snd): the owner closes the send side once every sender
\* has returned.
OwnerClose ==
    /\ ~sndClosed
    /\ \A i \in DOMAIN senders : senders[i] = lcnt
    /\ sndClosed' = TRUE
    /\ UNCHANGED <<crawlVars, words, mergeVars, scanVars, senders, lcnt, s, data,
                   relayExited, rcvCloses, got, rcvDone, accepted>>

\* unlimitedStringChannel has returned snd and rcv, its goroutine is at the
\* top of its loop, and the senders are about to send.
RelayInit ==
    /\ concurrency = 1
    /\ chanBufLen = 0
    /\ site = "any"
    /\ CrawlStart
    /\ MergeIdle
    /\ \E n \in 1 .. MaxSenders : senders = [i \in 1 .. n |-> 0]
    /\ lcnt \in 0 .. MaxSends
    /\ sndClosed = FALSE
    /\ s = "snd"
    /\ data = << >>
    /\ relayExited = FALSE
    /\ rcvCloses = 0
    /\ got = << >>
    /\ rcvDone = FALSE
    /\ accepted = << >>
    /\ ScanIdle

SendersSend == \E i \in 1 .. MaxSenders : RelayAccept(i)

RelayNext ==
    \/ SendersSend
    \/ RelaySeesClose
    \/ RelayDeliver
    \/ ReceiverSeesClose
    \/ OwnerClose

RelaySpec == RelayInit /\ [][RelayNext]_vars

\* The relay goroutine and the senders are scheduled: a send that the relay
\* can take is taken.  Nothing is asked of the receiver.
RelaySendFairSpec == RelaySpec /\ WF_vars(SendersSend)

\* Every goroutine is scheduled, the receiver and the owner too.
RelayFairSpec == RelaySpec /\ WF_vars(RelayNext)

(* ------ the first revision (finder.go): a blocking task send ---------- *)

\* const concurrencyMultiplier: both channels have this many slots per worker.
concurrencyMultiplier == 5

\* The number of hrefs of the start page of the site crawled by the first
\* revision, and of distinct link strings among them.
FirstSiteLinks == 13

\* The n-th link string the coordinator comes upon that it has not visited.
\* Which string that is makes no difference to the run, so the strings are
\* named in the order they are found.
LinkName(n) == "p" \o ToString(n)

FirstURLs == {startURL} \cup {LinkName(n) : n \in 1 .. FirstSiteLinks}

\* The lengths of the links slice a scan of page u can pass to addLinkData:
\* the start page holds FirstSiteLinks hrefs, the other pages none.
FirstBatches(u) == IF u = startURL THEN {FirstSiteLinks} ELSE {0}

\* run of the first revision about to send the seed: channels of
\* concurrencyMultiplier * *concurrency slots, the workers parked.
FirstInit ==
    /\ concurrency \in 1 .. MaxConcurrency
    /\ chanBufLen = concurrencyMultiplier * concurrency
    /\ site = "any"
    /\ pc = "seed"
    /\ cnt = 0
    /\ visited = {}
    /\ l = 0
    /\ tasks = << >>
    /\ tasksClosed = FALSE
    /\ filter = << >>
    /\ filterClosed = FALSE
    /\ taskHelpers = EmptyBag
    /\ filterHelpers = EmptyBag
    /\ workers = (Idle :> concurrency)
    /\ interrupt = FALSE
    /\ words = NoWords
    /\ errRecs = << >>
    /\ cancelled = FALSE
    /\ enq = 0
    /\ recvCnt = 0
    /\ sentU = [u \in FirstURLs |-> 0]
    /\ recvU = [u \in FirstURLs |-> 0]
    /\ pubU = [u \in FirstURLs |-> 0]
    /\ addCalls = 0
    /\ failedU = [u \in FirstURLs |-> 0]
    /\ shortCut = FALSE
    /\ spawned = FALSE
    /\ observed = FALSE
    /\ budget = 0
    /\ obsLeft = 0
    /\ panicked = {}
    /\ MergeIdle
    /\ RelayIdle
    /\ ScanIdle

\* for _, link := range l, entered with the batch just received (or the
\* iteration ended, for an empty batch).
FirstRange ==
    /\ pc = "check"
    /\ IF l = 0 THEN EndIteration(cnt)
                ELSE pc' = "links" /\ cnt' = cnt
    /\ UNCHANGED <<configVars, visited, l, chanVars, helperVars, workers,
                   interrupt, aggVars, cancelled, histVars>>
    /\ UNCHANGED sideVars

\* The next entry of the slice: a string already visited is passed over; a
\* new one is marked, "wf.visited[link] = true; cnt++", and the coordinator
\* is at its send.
FirstMark ==
    /\ pc = "links"
    /\ l' = l - 1
    /\ \/ /\ visited # {}
          /\ IF l = 1 THEN EndIteration(cnt)
                      ELSE UNCHANGED <<pc, cnt>>
          /\ UNCHANGED visited
       \/ /\ Cardinality(visited) < FirstSiteLinks
          /\ visited' = visited \cup {LinkName(Cardinality(visited) + 1)}
          /\ cnt' = cnt + 1
          /\ pc' = "send"
    /\ UNCHANGED <<configVars, chanVars, helperVars, workers,
                   interrupt, aggVars, cancelled, histVars>>
    /\ UNCHANGED sideVars

\* tasks <- SearchRecord{url: link} completing: a plain send, which waits
\* for room in the channel.  The link is the one marked last.
FirstSend ==
    /\ pc = "send"
    /\ TaskReady
    /\ TaskSend(LinkName(Cardinality(visited)))
    /\ enq' = enq + 1
    /\ IF l = 0 THEN EndIteration(cnt)
                ELSE pc' = "links" /\ cnt' = cnt
    /\ UNCHANGED <<configVars, visited, l, tasksClosed, filter, filterClosed,
                   helperVars, interrupt, aggVars, cancelled,
                   pubU, addCalls, failedU, shortCut, spawned, observed, recvCnt, budget, obsLeft>>
    /\ UNCHANGED sideVars

\* for rec := range tasks receiving a record, and rec.processLink(wf)
\* starting its fetch.
FirstWorkerRecv ==
    /\ BagIn(Idle, workers)
    /\ tasks # << >>
    /\ workers' = Move(Idle, Holding("fetch", Head(tasks)))
    /\ tasks' = Tail(tasks)
    /\ recvU' = Inc(recvU, Head(tasks))
    /\ UNCHANGED <<configVars, coordVars, tasksClosed, filter, filterClosed,
                   helperVars, interrupt, aggVars, cancelled, enq, recvCnt,
                   sentU, pubU, addCalls, failedU, shortCut, spawned, observed, budget, obsLeft, panicked>>
    /\ UNCHANGED sideVars

\* A variant of FirstWorkerFetch whose publish is the plain send
\* "wf.filter <- links", waiting for room in the channel.
FirstWorkerFetchBlocking(u) ==
    /\ BagIn(Holding("fetch", u), workers)
    /\ addCalls' = addCalls + 1
    /\ words' = AddTable(words, PageWords(u))
    /\ \E b \in FirstBatches(u) :
          /\ FilterReady
          /\ FilterSend(b)
          /\ UNCHANGED filterHelpers
    /\ workers' = Move(Holding("fetch", u), Idle)
    /\ pubU' = Inc(pubU, u)
    /\ UNCHANGED <<configVars, cnt, visited, tasks, tasksClosed, filterClosed,
                   taskHelpers, interrupt, errRecs, cancelled, enq, sentU, recvU,
                   failedU, shortCut, spawned, observed>>
    /\ UNCHANGED sideVars

\* The fetch and scan of url u returning, and addLinkData of the first
\* revision: under wf.mu the record is appended (wf.records, kept here as
\* its length addCalls) and the counts are added; then
\*   select { case wf.filter <- links: default: go func() { wf.filter <- links }() }
FirstWorkerFetch(u) ==
    /\ BagIn(Holding("fetch", u), workers)
    /\ addCalls' = addCalls + 1
    /\ words' = AddTable(words, PageWords(u))
    /\ \E b \in FirstBatches(u) :
          \/ /\ FilterReady
             /\ FilterSend(b)
             /\ UNCHANGED filterHelpers
          \/ /\ ~FilterReady
             /\ filterHelpers' = filterHelpers (+) SetToBag({b})
             /\ UNCHANGED <<pc, l, filter, recvCnt, budget, obsLeft, panicked>>
    /\ workers' = Move(Holding("fetch", u), Idle)
    /\ pubU' = Inc(pubU, u)
    /\ UNCHANGED <<configVars, cnt, visited, tasks, tasksClosed, filterClosed,
                   taskHelpers, interrupt, errRecs, cancelled, enq, sentU, recvU,
                   failedU, shortCut, spawned, observed>>
    /\ UNCHANGED sideVars

FirstCoordinator ==
    \/ SeedSend
    \/ Recv
    \/ FirstRange
    \/ FirstMark
    \/ FirstSend
    \/ CloseTasks
    \/ CloseFilter
    \/ WaitWorkers

FirstWorkers ==
    \/ FirstWorkerRecv
    \/ WorkerExit
    \/ \E u \in FirstURLs : FirstWorkerFetch(u)
    \/ FilterHelperSend

FirstNext ==
    \/ FirstCoordinator
    \/ FirstWorkers

FirstSpec == FirstInit /\ [][FirstNext]_vars

\* As for the later revision: the program is not left idle while one of
\* its goroutines can take a step.
FirstFairSpec == FirstSpec /\ WF_vars(FirstNext)

(* ------- the site filter (newWordFinder, processHTML's host test) ------ *)

\* Largest number of hrefs of one page explored.
MaxAnchors == 2

\* The hosts of the start URLs explored.
SeedHosts == {"example.com", "www.example.com", "a.example.com"}

\* The hosts of the hrefs a page may hold.
LinkHosts == {"example.com", "www.example.com", "sub.example.com",
              "notexample.com", "example.org", "com"}

\* strings.HasPrefix(str, prefix)
HasPrefix(str, prefix) ==
    Len(str) >= Len(prefix) /\ SubSeq(str, 1, Len(prefix)) = prefix

\* strings.HasSuffix(str, suffix)
HasSuffix(str, suffix) ==
    Len(str) >= Len(suffix)
    /\ SubSeq(str, Len(str) - Len(suffix) + 1, Len(str)) = suffix

\* newWordFinder: target := startURL.Hostname(), less a leading "www.".
Target(host) ==
    IF HasPrefix(host, "www.") THEN SubSeq(host, 5, Len(host)) ELSE host

\* processHTML for one href whose url has host h:
\* if strings.HasSuffix(u.Hostname(), wf.target) { links = append(links, av) }
ScanAnchor(h) ==
    /\ Len(scanned) < MaxAnchors
    /\ scanned' = Append(scanned, h)
    /\ hostLinks' = IF HasSuffix(h, target) THEN Append(hostLinks, h) ELSE hostLinks
    /\ UNCHANGED <<crawlVars, words, mergeVars, relayVars, seedHost, target>>

\* A WordFinder made for a start URL, and a page about to be scanned.
ScanInit ==
    /\ concurrency = 1
    /\ chanBufLen = 0
    /\ site = "any"
    /\ CrawlStart
    /\ MergeIdle
    /\ RelayIdle
    /\ seedHost \in SeedHosts
    /\ target = Target(seedHost)
    /\ hostLinks = << >>
    /\ scanned = << >>

ScanNext == \E h \in LinkHosts : ScanAnchor(h)

ScanSpec == ScanInit /\ [][ScanNext]_vars

(* ----------------------------- properties ------------------------------ *)

RECURSIVE SumOver(_, _)
\* The sum of f over the set S.
SumOver(f, S) ==
    IF S = {} THEN 0
    ELSE LET x == CHOOSE y \in S : TRUE
         IN  f[x] + SumOver(f, S \ {x})

\* Copies of url u waiting in the buffer of the task channel.
InTasks(u) == Cardinality({i \in 1 .. Len(tasks) : tasks[i] = u})

\* Workers that hold url u: received, batch not yet published.
HoldingCount(u) ==
    CopiesIn(Holding("start", u), workers)
    + CopiesIn(Holding("fetch", u), workers)
    + CopiesIn(Holding("nilsend", u), workers)

\* loopFunc has returned or is at its close(tasks).
PastLoop == pc \in {"closeTasks", "closeFilter", "wait", "done"}

\* C1: while the run has pending work (the seed is still to be sent, or the
\* pending-work counter is above 0), for every worker count and channel
\* capacity explored and whatever links the pages hold, some goroutine of the
\* program can take a step: the coordinating loop, the workers and the
\* helper goroutines are never all blocked at once.
C1_NoDeadlock == (pc = "seed" \/ cnt > 0) => ENABLED ProgNext

\* A state with the counter above 1 where both channels were too small: a
\* task send and a batch send are each parked in a helper goroutine.
C1_Witness ==
    /\ cnt > 1
    /\ taskHelpers # EmptyBag
    /\ filterHelpers # EmptyBag

\* C2: under fair scheduling a run that is not cancelled terminates: run
\* returns, and it returns only with the counter at 0, the task channel and
\* the filter channel closed (the filter never before the tasks, the tasks
\* only with the counter at 0) and every worker out of its receive loop.
C2_Terminates ==
    /\ <>(cancelled \/ pc = "done")
    /\ [](tasksClosed => cnt = 0)
    /\ [](filterClosed => tasksClosed)
    /\ [](pc = "done" => (cnt = 0 /\ tasksClosed /\ filterClosed /\ AllExited))

\* A run that was never cancelled has returned after three Tasks, one of
\* them delivered by a helper goroutine.
C2_Witness ==
    /\ pc = "done"
    /\ ~cancelled
    /\ enq = 3
    /\ spawned

\* C3: once close(tasks) has executed, no send on the task channel happens:
\* the coordinating loop is past its last send, no helper goroutine holds an
\* undelivered task send, and no send has hit the closed channel.
C3_NoTaskSendAfterClose ==
    tasksClosed =>
        /\ PastLoop
        /\ taskHelpers = EmptyBag
        /\ "tasks" \notin panicked

\* The task channel is closed in a run that used a helper goroutine for a
\* task send and in which the coordinator saw the cancellation.
C3_Witness ==
    /\ tasksClosed
    /\ spawned
    /\ observed

\* C4: once close(wf.filter) has executed, no send on filter happens or is
\* still to come: no helper goroutine holds a batch, no worker holds a Task
\* it has yet to answer, no Task is waiting to be picked up, and no send has
\* hit the closed channel.
C4_NoFilterSendAfterClose ==
    filterClosed =>
        /\ filterHelpers = EmptyBag
        /\ \A st \in BagToSet(workers) : st.pc \in {"idle", "exit"}
        /\ tasks = << >>
        /\ taskHelpers = EmptyBag
        /\ "filter" \notin panicked

\* The filter channel is closed after a cancelled run in which at least
\* three batches were published and a worker took the ctx.Done() case.
C4_Witness ==
    /\ filterClosed
    /\ cancelled
    /\ interrupt
    /\ SumOver(pubU, URLs) >= 3

\* C5: the counter is 1 at the first loop head; at every loop head it is the
\* number of Tasks enqueued (seed included: sends completed plus sends parked
\* in helpers) minus the number of batches received; inside an iteration it
\* is one more (the received batch is not yet counted off); it is never
\* negative; and the loop is left exactly with the counter at 0.
C5_CounterProtocol ==
    /\ cnt >= 0
    /\ (pc = "recv" /\ recvCnt = 0) => cnt = 1
    /\ pc = "recv" => (cnt = enq - recvCnt /\ cnt > 0)
    /\ pc \in {"check", "links"} => (cnt = enq - recvCnt + 1 /\ cnt > 0)
    /\ PastLoop => (cnt = 0 /\ enq = recvCnt)
    /\ pc # "seed" => enq = SumOver(sentU, URLs) + BagCardinality(taskHelpers)

\* The loop is at its head with two Tasks pending after a first receive.
C5_Witness ==
    /\ pc = "recv"
    /\ cnt = 2
    /\ recvCnt >= 1

\* C6: every Task sent on the task channel is in the channel's buffer or has
\* been received by one worker; every Task received is held by a worker or
\* has caused exactly one published batch; every published batch is in the
\* filter channel, in a helper goroutine or received by the coordinator; and
\* when run returns each Task sent has been received once and answered once.
C6_OneBatchPerTask ==
    /\ \A u \in URLs :
          /\ sentU[u] = InTasks(u) + recvU[u]
          /\ recvU[u] = HoldingCount(u) + pubU[u]
    /\ SumOver(pubU, URLs) = Len(filter) + BagCardinality(filterHelpers) + recvCnt
    /\ pc = "done" => (sentU = recvU /\ recvU = pubU)

\* A run has returned in which a page failed (an error record was logged),
\* a worker took a cancellation path, and three Tasks were answered.
C6_Witness ==
    /\ pc = "done"
    /\ errRecs # << >>
    /\ interrupt
    /\ SumOver(pubU, URLs) = 3

\* C7: when a run that was not cancelled returns, the number of Tasks
\* enqueued (seed included) equals the number of calls of addLinkData.
C7_EnqueuedEqualsMerged == (pc = "done" /\ ~cancelled) => enq = addCalls

\* An uncancelled run has returned after three Tasks and three merges.
C7_Witness ==
    /\ pc = "done"
    /\ ~cancelled
    /\ enq = 3
    /\ addCalls = 3

\* C8: each URL string is sent on the task channel, or handed to a helper
\* goroutine for sending, at most once in a run.
C8_NoDuplicateTask ==
    \A u \in URLs : sentU[u] + CopiesIn(u, taskHelpers) <= 1

\* C9: once the coordinating loop has taken the ctx.Done() branch it enqueues
\* no Task, starts no helper goroutine (a task send that still completes is a
\* send parked in a helper before) and never ranges over a batch again;
\* every iteration it ends takes exactly 1 off the counter; at each loop head
\* the counter is the number of Tasks in flight at the observation minus the
\* receives since; and it is past the loop only with the counter at 0.
C9_DrainAfterObserved ==
    /\ [][observed => /\ enq' = enq
                       /\ visited' = visited
                       /\ BagCardinality(taskHelpers') <= BagCardinality(taskHelpers)
                       /\ sentU' # sentU => taskHelpers' # taskHelpers]_vars
    /\ [][(observed /\ pc = "check" /\ pc' # "check") => cnt' = cnt - 1]_vars
    /\ [][(observed /\ pc = "recv") => cnt' = cnt]_vars
    /\ [](observed => pc # "links")
    /\ []((observed /\ pc = "recv") => (cnt = obsLeft /\ cnt > 0))
    /\ []((observed /\ PastLoop) => (cnt = 0 /\ obsLeft = 0))

\* The loop has observed the cancellation and is back at its head with a
\* batch still to receive, while a task send it handed to a helper goroutine
\* before the observation is still parked.
C9_Witness ==
    /\ observed
    /\ pc = "recv"
    /\ cnt >= 1
    /\ taskHelpers # EmptyBag

\* C10 as stated: a cancelled run returns after exactly as many filter
\* receives, counted from the cancel signal, as Tasks were in flight when the
\* signal was issued.
C10_ReceivesFromSignal == (cancelled /\ pc = "done") => budget = 0

\* C10: under fair scheduling a cancelled run always returns; from the
\* moment the coordinating loop observes the signal it makes exactly as many
\* filter receives as Tasks are in flight at that moment; if it never
\* observes the signal, the receives after the signal are the Tasks in
\* flight at the signal.
C10_CancelCompletes ==
    /\ cancelled ~> (pc = "done")
    /\ [](obsLeft >= 0)
    /\ []((pc = "done" /\ observed) => obsLeft = 0)
    /\ []((pc = "done" /\ cancelled /\ ~observed) => budget = 0)

\* A cancelled run has returned after more receives than Tasks were in flight
\* at the signal: the signal came while the loop was forwarding links.
C10_Witness ==
    /\ pc = "done"
    /\ observed
    /\ budget < 0

\* The entries of the error log for url u.
ErrorEntries(u) == Cardinality({i \in 1 .. Len(errRecs) : errRecs[i] = u})

\* C11: under fair scheduling, from any state where the cancellation has been
\* signalled, the seed Task has been sent and no batch has been received yet,
\* the run returns with the seed page's word counts in the table, the seed as
\* the only Task ever enqueued or sent, and wf.interrupt set.
C11_CancelBeforeFirstResult ==
    (cancelled /\ pc # "seed" /\ recvCnt = 0)
        ~> (/\ pc = "done"
            /\ words = PageWords(startURL)
            /\ enq = 1
            /\ sentU = [u \in URLs |-> IF u = startURL THEN 1 ELSE 0]
            /\ interrupt)

\* The signal has come before the first receive, and the worker has merged
\* the seed page's words and is in the ctx.Done() case of sendData.
C11_Witness ==
    /\ cancelled
    /\ recvCnt = 0
    /\ BagIn(Holding("nilsend", startURL), workers)
    /\ words = PageWords(startURL)

\* C12: when run returns, every url has one entry in the error log for each
\* of its Tasks that ended with sr.err set, and no other entry.
C12_FailuresLogged ==
    pc = "done" => \A u \in URLs : ErrorEntries(u) = failedU[u]

\* C20: a worker is never parked in a send on filter that cannot proceed.
C20_PublishNeverWaits ==
    \A u \in URLs : BagIn(Holding("nilsend", u), workers) => FilterReady

RECURSIVE FoldTables(_)
\* The table left by merging the callers' tables one after the other, in the
\* order q of the callers, into an empty table.
FoldTables(q) ==
    IF Len(q) = 0 THEN NoWords
    ELSE AddTable(FoldTables(SubSeq(q, 1, Len(q) - 1)), callers[q[Len(q)]].wds)

\* The callers whose call of addLinkData is past its merge.
Merged == {c \in DOMAIN callers : At(c, "done")}

\* C13: whenever no merge is under way, the count of every word in wf.words
\* is the sum of its counts in the tables of the calls made so far, however
\* the callers' steps were interleaved.
C13_NoLostUpdate ==
    mu = {} =>
        \A w \in Words :
            words[w] = SumOver([c \in DOMAIN callers |->
                                   IF c \in Merged THEN callers[c].wds[w] ELSE 0],
                               DOMAIN callers)

\* One caller is between its read and its write of a word's count while
\* another, whose table holds the same word, waits for wf.mu.
C13_Witness ==
    \E c, d \in DOMAIN callers :
        /\ c # d
        /\ At(c, "write")
        /\ At(d, "lock")
        /\ callers[c].key \in Keys(callers[d].wds)

\* C14: whenever no merge is under way, wf.words is the table that merging
\* the same tables one at a time gives in every order of the callers that
\* merged, the order they took the lock in being one of them.
C14_OrderIndependent ==
    mu = {} =>
        /\ FoldTables(order) = words
        /\ \A q \in Orderings({order[i] : i \in DOMAIN order}) : FoldTables(q) = words

\* Two callers with different, overlapping tables have merged, the second
\* of them first.
C14_Witness ==
    /\ mu = {}
    /\ order = <<2, 1>>
    /\ callers[1].wds = FirstPage
    /\ callers[2].wds = AnotherPage
    /\ Merged = {1, 2}

\* C15: every slice getResults returns has min(*totWords, number of words
\* in the table) entries, each with a count strictly above the next one's,
\* and a second call on the same table returns the same slice as the first.
C15_TopNDeterministic ==
    \A i \in DOMAIN results :
        LET r == results[i]
        IN  /\ Len(r) = Min(totWords, Cardinality(Keys(words)))
            /\ \A j \in 1 .. Len(r) - 1 : r[j].value > r[j + 1].value
            /\ r = results[1]

\* C16: when an uncancelled run over TestServer's site returns, exactly two
\* Tasks were sent, one per page, the error log is empty, every word's count
\* is the sum of its counts on the two pages, and getResults can only return
\* parallelogram with 3 first and tarantulas with 2 second.
C16_TestServer ==
    (site = "test" /\ pc = "done" /\ ~cancelled) =>
        /\ enq = 2
        /\ sentU = [u \in URLs |-> IF u \in {startURL, "a"} THEN 1 ELSE 0]
        /\ pubU = sentU
        /\ errRecs = << >>
        /\ \A w \in Words : words[w] = FirstPage[w] + AnotherPage[w]
        /\ \A r \in GetResults(words, DefaultTotWords) :
              /\ Len(r) = 3
              /\ r[1] = [key |-> "parallelogram", value |-> 3]
              /\ r[2] = [key |-> "tarantulas", value |-> 2]

\* A run over TestServer's site with two workers has returned, never
\* cancelled.
C16_Witness ==
    /\ site = "test"
    /\ pc = "done"
    /\ ~cancelled
    /\ concurrency = 2
    /\ addCalls = 2

\* Every sender has sent all its items.
AllSent == \A i \in DOMAIN senders : senders[i] = lcnt

\* C17: what the receiver has got, followed by what the relay still holds,
\* is always the sequence of items in the order the relay accepted them, no
\* item twice; the receiver sees rcv closed only after it got them all, all
\* N of them; and when every goroutine is scheduled it does see it closed.
C17_RelayFifo ==
    /\ [](got \o data = accepted)
    /\ [](\A i, j \in DOMAIN accepted : i # j => accepted[i] # accepted[j])
    /\ [](rcvDone => (/\ got = accepted
                      /\ Len(got) = Len(senders) * lcnt
                      /\ sndClosed))
    /\ <>rcvDone

\* The receiver has seen the close after receiving four items of two
\* senders that the relay had accepted interleaved.
C17_Witness ==
    /\ rcvDone
    /\ Len(got) = 4
    /\ got[1][1] # got[2][1]

\* C18: when the relay goroutine and the senders are scheduled, every sender
\* completes all its sends, whether or not the receiver ever receives.
C18_SendsComplete == <>AllSent

\* Two senders have completed all their sends, four items are buffered, and
\* the receiver has received nothing.
C18_Witness ==
    /\ AllSent
    /\ Len(data) = 4
    /\ got = << >>
    /\ ~sndClosed

\* C19: close(rcv) executes at most once, and once it has, snd is closed and
\* seen closed by the relay, the buffer is empty, every accepted item has
\* been delivered, and the relay goroutine has left its loop.
C19_CloseOnceWhenDrained ==
    /\ rcvCloses <= 1
    /\ rcvCloses = 1 => (/\ sndClosed
                         /\ s = "nil"
                         /\ data = << >>
                         /\ got = accepted
                         /\ relayExited)

\* rcv has been closed after at least two items were delivered, and the
\* receiver has not yet seen the close.
C19_Witness ==
    /\ rcvCloses = 1
    /\ Len(got) >= 2
    /\ rcvDone = FALSE

\* Workers at the given place of processLink for url u.
Count(at, u) == CopiesIn(Holding(at, u), workers)

\* Workers that are fetching or scanning a page.
Fetching == SumOver([u \in URLs |-> Count("fetch", u)], URLs)

\* C21: a fetch that returns after the cancellation signal still has its
\* page's counts added to wf.words in a call of addLinkData, and the worker
\* either publishes one batch for the Task at once or is in the send of the
\* nil batch, which publishes one when it completes; at all times every Task
\* a worker received is held by a worker or has one published batch, and
\* when run returns each has one, received once by the coordinating loop.
C21_InFlightFinishes ==
    /\ [][\A u \in URLs :
            (cancelled /\ Count("fetch", u)' < Count("fetch", u)) =>
                /\ \E o \in Outcomes(u) : words' = AddTable(words, o.wds)
                /\ addCalls' = addCalls + 1
                /\ \/ pubU' = Inc(pubU, u) /\ Count("nilsend", u)' = Count("nilsend", u)
                   \/ pubU' = pubU /\ Count("nilsend", u)' = Count("nilsend", u) + 1]_vars
    /\ [][\A u \in URLs :
            Count("nilsend", u)' < Count("nilsend", u) => pubU' = Inc(pubU, u)]_vars
    /\ [](\A u \in URLs : recvU[u] = HoldingCount(u) + pubU[u])
    /\ [](pc = "done" => (pubU = recvU /\ recvCnt = SumOver(pubU, URLs)))

\* On TestServer's site the fetch of the second page has returned after the
\* signal: its words are in the table and the worker is in the ctx.Done()
\* case of sendData, its batch not yet published.
C21_Witness ==
    /\ site = "test"
    /\ cancelled
    /\ Count("nilsend", "a") = 1
    /\ words = AddTable(FirstPage, AnotherPage)
    /\ pubU["a"] = 0

\* What reaches the coordinating loop when the batch b is sent on filter.
Delivered(b) ==
    \/ filter' = Append(filter, b)
    \/ l' = b /\ pc' = "check" /\ recvCnt' = recvCnt + 1

\* C22: a worker that leaves the start of processLink without going on to
\* the fetch had wf.interrupt set; the step adds nothing to wf.words, logs no
\* error and sets no sr.err, is one call of addLinkData, and either sends the
\* nil batch on filter or leaves the worker in that send (never hands it to
\* a helper goroutine); and the send of the ctx.Done() case delivers nil.
C22_ShortCircuit ==
    /\ [][\A u \in URLs :
            (/\ Count("start", u)' < Count("start", u)
             /\ Count("fetch", u)' = Count("fetch", u)) =>
                /\ interrupt
                /\ words' = words
                /\ errRecs' = errRecs
                /\ failedU' = failedU
                /\ addCalls' = addCalls + 1
                /\ filterHelpers' = filterHelpers
                /\ \/ pubU' = Inc(pubU, u) /\ Delivered(0)
                   \/ pubU' = pubU /\ Count("nilsend", u)' = Count("nilsend", u) + 1]_vars
    /\ [][\A u \in URLs :
            Count("nilsend", u)' < Count("nilsend", u) => Delivered(0)]_vars
    /\ [](shortCut => interrupt)

\* A worker has short-circuited a Task and the coordinating loop is at its
\* receive.
C22_Witness ==
    /\ shortCut
    /\ pc = "recv"
    /\ Fetching = 0

\* C23: once the cancellation signal has been issued no worker goes on from
\* the start of processLink to the fetch.
C23_CheckpointAtStart ==
    [][cancelled => \A u \in URLs : Count("fetch", u)' <= Count("fetch", u)]_vars

\* C24: when run has returned, with or without cancellation, the worker
\* goroutines are the *concurrency ones started and all have returned, no
\* helper goroutine is left with an undelivered task or batch, and no send
\* has ended in a panic.
C24_NoGoroutineLeak ==
    pc = "done" =>
        /\ AllExited
        /\ BagCardinality(workers) = concurrency
        /\ taskHelpers = EmptyBag
        /\ filterHelpers = EmptyBag
        /\ panicked = {}

\* A cancelled run with two workers that used a helper goroutine for a task
\* send has returned.
C24_Witness ==
    /\ pc = "done"
    /\ cancelled
    /\ spawned
    /\ concurrency = 2

\* C25: there are always exactly *concurrency worker goroutines, so at most
\* that many pages are being fetched, whatever is waiting in the task channel
\* or in helper goroutines.
C25_FixedPool ==
    /\ BagCardinality(workers) = concurrency
    /\ Fetching <= concurrency

\* Both workers of a pool of two are fetching, in a run that needed a helper
\* goroutine for a task send.
C25_Witness ==
    /\ concurrency = 2
    /\ Fetching = 2
    /\ spawned

\* C26: wf.interrupt is never about to be written by one goroutine (the
\* coordinating loop in its ctx.Done() branch, or a worker in sendData once
\* ctx is done) while another goroutine is about to read it at the start of
\* processLink, with no synchronisation between the two.
C26_NoUnsyncedFlag ==
    \A u \in URLs :
        Count("start", u) > 0 =>
            /\ ~(pc = "check" /\ CtxDone)
            /\ ~(CtxDone /\ \E v \in URLs : Count("fetch", v) > 0)

\* C27: inside its loop the coordinator can always take its next step unless
\* it is at the receive from filter: the cancellation check can always be
\* made, and a link not yet visited can always be forwarded, by a send or by
\* starting a helper goroutine.
C27_OnlyReceiveSuspends ==
    /\ pc = "check" => ENABLED CheckCancel
    /\ pc = "links" =>
          /\ ENABLED ForwardLink
          /\ \A link \in LinkStrings \ visited : ENABLED OfferTask(link)

\* The coordinator is forwarding links, one not yet visited is left, the
\* task channel cannot take a value and no worker is idle.
C27_Witness ==
    /\ pc = "links"
    /\ ~TaskReady
    /\ ~BagIn(Idle, workers)
    /\ LinkStrings \ visited # {}

C29_VisitedOwned ==
    /\ [][visited \subseteq visited']_vars
    /\ [][visited' # visited =>
            /\ pc = "links"
            /\ enq' = enq + 1
            /\ \E link \in LinkStrings : visited' = visited \cup {link}]_vars
    /\ [][\A u \in URLs :
            (/\ pc # "seed"
             /\ sentU'[u] + CopiesIn(u, taskHelpers') > sentU[u] + CopiesIn(u, taskHelpers))
                => (u \notin visited /\ u \in visited')]_vars

\* Two links have been marked visited and forwarded, one of them through a
\* helper goroutine.
C29_Witness ==
    /\ Cardinality(visited) >= 2
    /\ spawned
    /\ enq >= 3

\* C30: wf.words and wf.errRecs change only in a call of addLinkData, and
\* only while loopFunc is in its loop; once run has returned they never
\* change and every worker has returned; and getErrors and getResults are
\* called only then.
C30_ReadAfterWorkers ==
    /\ [][(words' # words \/ errRecs' # errRecs) =>
            (addCalls' = addCalls + 1 /\ ~PastLoop)]_vars
    /\ [][pc = "done" => (words' = words /\ errRecs' = errRecs)]_vars
    /\ [][results' # results => (pc = "done" /\ AllExited /\ Fetching = 0)]_vars
    /\ [](pc = "done" => AllExited)

\* showStatus has read the results of a cancelled run in which an error was
\* logged.
C30_Witness ==
    /\ results # << >>
    /\ cancelled
    /\ errRecs # << >>

\* C31: a step either leaves the error log as it is or appends one entry to
\* it, for a url whose Task ends in that step with sr.err set; so the
\* entries already there are never removed or changed, and no url has more
\* entries than Tasks that failed (none for a Task that succeeded, found
\* nothing, or was short-circuited).
C31_ErrorLogAppendOnly ==
    /\ [][\/ errRecs' = errRecs
          \/ \E u \in URLs : /\ errRecs' = Append(errRecs, u)
                              /\ failedU' = Inc(failedU, u)
                              /\ Count("fetch", u)' < Count("fetch", u)]_vars
    /\ [](\A u \in URLs : ErrorEntries(u) <= failedU[u])

\* A run has returned with an error logged for page "b" and none for page
\* "a", which was processed twice or short-circuited.
C31_Witness ==
    /\ pc = "done"
    /\ shortCut
    /\ ErrorEntries("b") = 1
    /\ pubU["a"] = 1
    /\ ErrorEntries("a") = 0

\* C32: in every state of the relay queue, whatever the order of sends and
\* receives so far, the items delivered followed by the items buffered are
\* the items accepted from snd, in the order they were accepted.
C32_FifoAlways == got \o data = accepted

\* The receiver has received an item, another is buffered, and a sender has
\* yet to send: receives have come between sends.
C32_Witness ==
    /\ got # << >>
    /\ data # << >>
    /\ ~AllSent

\* C33: the step the coordinating loop takes from its cancellation check
\* while ctx is done ends the iteration: the counter goes down by 1, the
\* batch is dropped, and the visited map, the Tasks enqueued and sent, and
\* the helper goroutines are as before.
C33_DiscardAfterCancel ==
    [][(pc = "check" /\ cancelled /\ pc' # "check") =>
            /\ cnt' = cnt - 1
            /\ pc' = (IF cnt' > 0 THEN "recv" ELSE "closeTasks")
            /\ l' = 0
            /\ visited' = visited
            /\ enq' = enq
            /\ sentU' = sentU
            /\ tasks' = tasks
            /\ taskHelpers' = taskHelpers
            /\ spawned' = spawned]_vars

\* The coordinating loop is at its cancellation check, ctx done, with the
\* start page's batch of links in hand, none of them visited yet.
C33_Witness ==
    /\ pc = "check"
    /\ cancelled
    /\ l = MaxFanout
    /\ visited = {}

\* C34: while the coordinating loop is at its receive, the counter is the
\* number of Tasks in the task channel, plus those in helper goroutines,
\* plus those held by workers that have not published (the ones blocked in
\* the send of a nil batch included), plus the batches in the filter channel,
\* plus those in helper goroutines; and it is above 0.
C34_Conservation ==
    pc = "recv" =>
        /\ cnt = Len(tasks) + BagCardinality(taskHelpers)
                 + SumOver([u \in URLs |-> HoldingCount(u)], URLs)
                 + Len(filter) + BagCardinality(filterHelpers)
        /\ cnt > 0

\* The loop is at its receive with two Tasks pending: one in a helper
\* goroutine, the other answered by a batch that is in a helper goroutine.
C34_Witness ==
    /\ pc = "recv"
    /\ cnt = 2
    /\ BagCardinality(taskHelpers) = 1
    /\ BagCardinality(filterHelpers) = 1

\* C35: once the seed is sent, the Tasks enqueued are the seed and one per
\* link string in the visited map, which holds only strings that came in
\* batches; so neither they nor the counter exceed 1 plus the number of
\* distinct link strings of the site.
C35_EnqueuedBounded ==
    /\ pc # "seed" => enq = 1 + Cardinality(visited)
    /\ visited \subseteq LinkStrings
    /\ enq <= 1 + Cardinality(LinkStrings)
    /\ cnt <= 1 + Cardinality(LinkStrings)

\* Every link string of the site has been forwarded, the start URL among
\* them: four Tasks for three strings.
C35_Witness ==
    /\ visited = URLs
    /\ enq = 4

\* C36: once the relay has seen snd closed it never takes snd up again and
\* accepts nothing more; if nothing is buffered when it sees the close it
\* closes rcv in that step, with no receive; and when every goroutine is
\* scheduled, the receiver too, a close of snd leads to a state where every
\* accepted item is delivered, rcv is closed and the relay has returned.
C36_DrainAfterClose ==
    /\ [][s = "nil" => (s' = "nil" /\ accepted' = accepted /\ senders' = senders)]_vars
    /\ [][(s = "snd" /\ s' = "nil" /\ data = << >>) =>
            (rcvCloses' = 1 /\ relayExited' /\ got' = got)]_vars
    /\ sndClosed ~> (relayExited /\ rcvCloses = 1 /\ data = << >> /\ got = accepted)

\* The relay has returned after the one sender's two items, still buffered
\* when snd was closed, were delivered.
C36_Witness ==
    /\ relayExited
    /\ Len(senders) = 1
    /\ Len(got) = 2
    /\ ~rcvDone

\* C37: the relay offers nothing on rcv while its buffer is empty, and what
\* the receiver has got are items that senders sent, never the empty string
\* nxt holds meanwhile, and never more than were accepted.
C37_OnlySentItems ==
    /\ data = << >> => ~ENABLED RelayDeliver
    /\ \A k \in DOMAIN got :
          /\ got[k] # NoItem
          /\ \E i \in DOMAIN senders : \E n \in 0 .. senders[i] - 1 : got[k] = Item(i, n)
    /\ Len(got) <= Len(accepted)

\* The receiver has got an item, the buffer is empty again, and a sender
\* has more to send: the receiver waits.
C37_Witness ==
    /\ data = << >>
    /\ got # << >>
    /\ ~AllSent
    /\ ~sndClosed

\* C38: wf.interrupt is set only when ctx is done, and once set it stays
\* set.  (It is false when run starts.)
C38_InterruptMonotonic ==
    /\ [](interrupt => cancelled)
    /\ [][interrupt => interrupt']_vars
    /\ [](pc = "seed" => ~interrupt)

\* The flag has been set by a worker, in sendData, before the coordinating
\* loop has seen the signal.
C38_Witness ==
    /\ interrupt
    /\ ~observed
    /\ pc = "recv"

\* The host h is the host t or a sub-host of it.
SameSite(h, t) == h = t \/ HasSuffix(h, "." \o t)

\* C40: an href is appended to the page's links exactly when its host is the
\* start URL's host, less a leading "www.", or a sub-host of that; so a host
\* that only ends in the same characters is not.
C40_HostBoundary ==
    /\ target = Target(seedHost)
    /\ \A k \in DOMAIN scanned :
          (\E j \in DOMAIN hostLinks : hostLinks[j] = scanned[k])
              <=> SameSite(scanned[k], Target(seedHost))

\* C39: in the first revision, whenever run has not returned some goroutine
\* can take a step; no send meets a closed channel; and under fair
\* scheduling the coordinator's send of a new Task, once begun, completes,
\* and run returns.
C39_BlockingSendCompletes ==
    /\ [](pc # "done" => ENABLED FirstNext)
    /\ [](panicked = {})
    /\ (pc = "send") ~> (pc # "send")
    /\ <>(pc = "done")

\* The coordinator is in its send with the task channel full and every
\* worker busy fetching.
C39_Witness ==
    /\ pc = "send"
    /\ ~TaskReady
    /\ ~BagIn(Idle, workers)

=============================================================================
